---------------------------- MODULE Spec2Model ----------------------------
(***************************************************************************)
(* Model of the loads-dashboard backend (server.ts, database.ts): the API  *)
(* key middleware and the loads, negotiate, callsdata and dashboard        *)
(* handlers over the LOADS and CALLS tables.                               *)
(*                                                                         *)
(* Money amounts are whole currency units.  A provisional rate, which may  *)
(* be a half unit, is carried doubled.  A quotient the code leaves         *)
(* unrounded is carried as a fraction in lowest terms.  Time is counted in *)
(* hours since an epoch; a calendar date is the number of its day.         *)
(***************************************************************************)
EXTENDS Integers, Sequences, FiniteSets

VARIABLES loads, calls, now, tz, pc, d, req, res, key

vars == <<loads, calls, now, tz, pc, d, req, res, key>>

---------------------------------------------------------------------------
(* Bounds of the model                                                     *)

\* rates offered and countered are multiples of RateStep
RateStep == 50
\* ... from -NegK*RateStep to NegK*RateStep around zero
NegK == 6
\* ... and from LowK*RateStep to HighK*RateStep around the seeded ceilings
LowK == 56
HighK == 124
\* load ids asked for: 1..MaxLoadId (the seed holds 1..3)
MaxLoadId == 4

---------------------------------------------------------------------------
(* Values of the JavaScript side                                           *)

\* a JSON / JavaScript value: its typeof tag and its payload
Str(s) == [t |-> "string", s |-> s, n |-> 0, b |-> FALSE]
Num(n) == [t |-> "number", s |-> "", n |-> n, b |-> FALSE]
Bool(b) == [t |-> "boolean", s |-> "", n |-> 0, b |-> b]
Undefined == [t |-> "undefined", s |-> "", n |-> 0, b |-> FALSE]
\* typeof null is 'object'
Null == [t |-> "object", s |-> "", n |-> 0, b |-> FALSE]
NaN == [t |-> "number", s |-> "NaN", n |-> 0, b |-> FALSE]
Infinity == [t |-> "number", s |-> "Infinity", n |-> 0, b |-> FALSE]
MinusInfinity == [t |-> "number", s |-> "-Infinity", n |-> 0, b |-> FALSE]

isNaN(v) == v.t = "number" /\ v.s = "NaN"

\* a number that is neither NaN nor an infinity
IsFiniteNumber(v) == v.t = "number" /\ v.s = ""

\* a query-string parameter: absent, the empty string, a numeral, or other text;
\* among the texts Number() does not turn into NaN: blanks, "Infinity", "-Infinity"
QAbsent == [k |-> "absent", n |-> 0]
QEmpty == [k |-> "empty", n |-> 0]
QText == [k |-> "text", n |-> 0]
QNum(n) == [k |-> "numeral", n |-> n]
QBlank == [k |-> "blank", n |-> 0]
QInfinity == [k |-> "Infinity", n |-> 0]
QMinusInfinity == [k |-> "-Infinity", n |-> 0]

\* req.query.x ? Number(req.query.x) : undefined
QueryNumber(p) ==
    IF p.k \in {"absent", "empty"} THEN Undefined
    ELSE IF p.k = "numeral" THEN Num(p.n)
    ELSE IF p.k = "blank" THEN Num(0)
    ELSE IF p.k = "Infinity" THEN Infinity
    ELSE IF p.k = "-Infinity" THEN MinusInfinity
    ELSE NaN

Min(a, b) == IF a <= b THEN a ELSE b

---------------------------------------------------------------------------
(* API key                                                                 *)

\* process.env.API_KEY: a secret that is set (the server exits without one)
API_KEY == "secret"

\* app.use('/api', apiKeyMiddleware): whether next() is called (else 401) for a
\* request with this originalUrl, this path below /api and this x-api-key header
(* variant: any key that is provided passes *)
apiKeyMiddlewareAnyKey(originalUrl, path, providedKey) ==
    \/ originalUrl = "/api/dashboard" \/ path = "/dashboard"
    \/ ~(providedKey = Undefined \/ providedKey = Str(""))

apiKeyMiddleware(originalUrl, path, providedKey) ==
    \/ originalUrl = "/api/dashboard" \/ path = "/dashboard"
    \/ ~(providedKey = Undefined \/ providedKey = Str("") \/ providedKey # Str(API_KEY))

---------------------------------------------------------------------------
(* LOADS                                                                   *)

\* the three rows seedData inserts; AUTOINCREMENT numbers them 1, 2, 3
SeedLoads ==
    { [load_id |-> 1, origin |-> "Los Angeles", destination |-> "New York",
       loadboard_rate |-> 3500, maximum_rate |-> 5000],
      [load_id |-> 2, origin |-> "Chicago", destination |-> "Houston",
       loadboard_rate |-> 2800, maximum_rate |-> 4000],
      [load_id |-> 3, origin |-> "Miami", destination |-> "Atlanta",
       loadboard_rate |-> 2200, maximum_rate |-> 3200] }

\* (variant: the first load when the id is unknown)
getLoadByIdOrFirst(load_id) ==
    IF \E l \in loads : l.load_id = load_id
    THEN {l \in loads : l.load_id = load_id}
    ELSE {l \in loads : \A m \in loads : l.load_id <= m.load_id}

\* SELECT * FROM LOADS WHERE load_id = ?  (the rows found: one or none)
getLoadById(load_id) == {l \in loads : l.load_id = load_id}

---------------------------------------------------------------------------
(* Responses and requests                                                  *)

NoQuery == [load_id |-> QAbsent, offered_rate |-> QAbsent, counter_offer |-> QAbsent]

NoBody ==
    [id |-> Undefined, duration |-> Undefined, mc_number |-> Undefined,
     final_offer |-> Undefined, final_counter_offer |-> Undefined,
     offer_iterations |-> Undefined, successful |-> Undefined,
     sentiment |-> Undefined]

\* the origin and destination a loads request asks for
NoFilter == [origin |-> Undefined, destination |-> Undefined]

\* the request most recently received
Request(op, q, body) == [op |-> op, q |-> q, body |-> body, filter |-> NoFilter]

\* a response: its status and the fields of its JSON body.  A new_rate that is
\* not finite (JSON.stringify writes null) is named in nonfinite.
Response(status, error) ==
    [status |-> status, error |-> error, new_rate |-> 0, nonfinite |-> "",
     id |-> "", rows |-> <<>>]

Pending == Response(0, "")

\* the catch block of every handler
InternalError == Response(500, "Internal server error")

\* what apiKeyMiddleware answers when it does not call next()
Unauthorized(request) ==
    /\ req' = request
    /\ res' = Response(401, "Unauthorized: Invalid or missing API key")
    /\ UNCHANGED <<loads, calls, now, tz, pc, d>>

\* a request through app.use('/api', apiKeyMiddleware) to its route handler
Route(originalUrl, path, providedKey, request, handler) ==
    /\ key' = providedKey
    /\ IF apiKeyMiddleware(originalUrl, path, providedKey)
       THEN handler
       ELSE Unauthorized(request)

---------------------------------------------------------------------------
(* GET /api/loads                                                          *)

\* if (origin), if (destination): a filter that is given and not empty
Given(v) == ~(v = Undefined \/ v = Str(""))

RECURSIVE OrderByLoadId(_)
OrderByLoadId(rows) ==
    IF rows = {} THEN <<>>
    ELSE LET first == CHOOSE l \in rows : \A m \in rows : l.load_id <= m.load_id
         IN  <<first>> \o OrderByLoadId(rows \ {first})

\* SELECT * FROM LOADS WHERE 1=1 [AND origin = ?] [AND destination = ?]
\* ORDER BY load_id
getLoads(origin, destination) ==
    OrderByLoadId({ l \in loads :
                      /\ Given(origin) => l.origin = origin.s
                      /\ Given(destination) => l.destination = destination.s })

LoadsRequest(filter) == [Request("loads", NoQuery, NoBody) EXCEPT !.filter = filter]

Loads(filter) ==
    /\ req' = LoadsRequest(filter)
    /\ res' = [Response(200, "") EXCEPT
                 !.rows = getLoads(filter.origin, filter.destination)]
    /\ UNCHANGED <<loads, calls, now, tz, pc, d>>

\* the query is rejected by the database
LoadsError(filter) ==
    /\ req' = LoadsRequest(filter)
    /\ res' = InternalError
    /\ UNCHANGED <<loads, calls, now, tz, pc, d>>

---------------------------------------------------------------------------
(* GET /api/negotiate                                                      *)

\* (variant: the negotiation starts from the rate the load is listed at)
LoadboardRateFromLoad(offered_rate, load) == load.loadboard_rate

\* const loadboard_rate = offered_rate
LoadboardRate(offered_rate, load) == offered_rate

\* (variant: the gap to the counter is split even when it is above the ceiling)
ProvisionalSplitCounter(loadboard_rate, maximum_rate, counter_offer) ==
    2 * loadboard_rate + (counter_offer - loadboard_rate)

\* twice the provisional rate: loadboard_rate + difference / 2
Provisional2(loadboard_rate, maximum_rate, counter_offer) ==
    IF counter_offer > maximum_rate
    THEN 2 * loadboard_rate + (maximum_rate - loadboard_rate)
    ELSE 2 * loadboard_rate + (counter_offer - loadboard_rate)

\* (variant: a tie is rounded away from zero)
RoundHalfAwayFromZero(p2) ==
    IF p2 >= 0 THEN ((p2 + 100) \div 200) * 100
    ELSE -(((-p2 + 100) \div 200) * 100)

\* Math.round(provisional_rate / 100) * 100, of the doubled provisional rate:
\* Math.round(x) is floor(x + 1/2)
Round100(p2) == ((p2 + 100) \div 200) * 100

\* (variant: the rate is held to the ceiling alone)
ClampToCeilingOnly(rounded, maximum_rate, counter_offer) == Min(rounded, maximum_rate)

\* Math.min(new_rate, maximum_rate, counter_offer)
Clamp(rounded, maximum_rate, counter_offer) ==
    Min(Min(rounded, maximum_rate), counter_offer)

NewRate(offered_rate, load, counter_offer) ==
    Clamp(Round100(Provisional2(LoadboardRate(offered_rate, load),
                                load.maximum_rate, counter_offer)),
          load.maximum_rate, counter_offer)

\* the same lines on numbers that may be infinite, by IEEE 754:
\*  - an infinite offered rate makes difference the opposite infinity and the
\*    provisional rate NaN, which Math.round and Math.min hand on;
\*  - a counter of Infinity is above the ceiling and Math.min passes over it;
\*  - a counter of -Infinity makes every step -Infinity.
NewRateOfNumbers(offered_rate, load, counter_offer) ==
    IF ~IsFiniteNumber(offered_rate) THEN NaN
    ELSE IF counter_offer = Infinity
    THEN Num(NewRate(offered_rate.n, load, load.maximum_rate + 1))
    ELSE IF counter_offer = MinusInfinity THEN MinusInfinity
    ELSE Num(NewRate(offered_rate.n, load, counter_offer.n))

\* res.json({new_rate})
RateResponse(new_rate) ==
    [Response(200, "") EXCEPT !.new_rate = new_rate.n, !.nonfinite = new_rate.s]

Negotiate(q) ==
    LET load_id == QueryNumber(q.load_id)
        offered_rate == QueryNumber(q.offered_rate)
        counter_offer == QueryNumber(q.counter_offer)
        found == IF IsFiniteNumber(load_id) THEN getLoadById(load_id.n) ELSE {}
    IN  /\ req' = Request("negotiate", q, NoBody)
        /\ res' =
             IF \/ load_id = Undefined
                \/ offered_rate = Undefined
                \/ counter_offer = Undefined
             THEN Response(400, "Missing required fields")
             ELSE IF isNaN(load_id) \/ isNaN(offered_rate) \/ isNaN(counter_offer)
             THEN Response(400, "Invalid field types")
             ELSE IF found = {}
             THEN Response(404, "Load not found")
             ELSE LET load == CHOOSE l \in found : TRUE
                  IN  RateResponse(NewRateOfNumbers(offered_rate, load, counter_offer))
        /\ UNCHANGED <<loads, calls, now, tz, pc, d>>

\* the lookup of a validated request is rejected by the database
NegotiateError(q) ==
    /\ QueryNumber(q.load_id).t = "number" /\ ~isNaN(QueryNumber(q.load_id))
    /\ QueryNumber(q.offered_rate).t = "number" /\ ~isNaN(QueryNumber(q.offered_rate))
    /\ QueryNumber(q.counter_offer).t = "number" /\ ~isNaN(QueryNumber(q.counter_offer))
    /\ req' = Request("negotiate", q, NoBody)
    /\ res' = InternalError
    /\ UNCHANGED <<loads, calls, now, tz, pc, d>>

---------------------------------------------------------------------------
(* POST /api/callsdata                                                     *)

\* (variant: any string counts as a success)
NormalizeAnyStringTrue(successful) ==
    IF successful.t = "string" THEN Bool(TRUE) ELSE successful

\* if (typeof successful === 'string') normalizedSuccessful = successful === 'Success'
NormalizeSuccessful(successful) ==
    IF successful.t = "string" THEN Bool(successful.s = "Success") ELSE successful

MissingField(body) ==
    \/ body.id = Undefined
    \/ body.duration = Undefined
    \/ body.mc_number = Undefined
    \/ body.final_offer = Undefined
    \/ body.final_counter_offer = Undefined
    \/ body.offer_iterations = Undefined
    \/ body.successful = Undefined
    \/ body.sentiment = Undefined

\* (variant: only the strings are checked)
WrongTypeOfStrings(body) ==
    \/ body.id.t # "string"
    \/ body.sentiment.t # "string"

WrongType(body) ==
    \/ body.id.t # "string"
    \/ body.duration.t # "number"
    \/ body.mc_number.t # "number"
    \/ body.final_offer.t # "number"
    \/ body.final_counter_offer.t # "number"
    \/ body.offer_iterations.t # "number"
    \/ NormalizeSuccessful(body.successful).t # "boolean"
    \/ body.sentiment.t # "string"

\* the row INSERT INTO CALLS writes; created_at is CURRENT_TIMESTAMP
CallRow(body, at) ==
    [id |-> body.id.s,
     duration |-> body.duration.n,
     mc_number |-> body.mc_number.n,
     final_offer |-> body.final_offer.n,
     final_counter_offer |-> body.final_counter_offer.n,
     offer_iterations |-> body.offer_iterations.n,
     successful |-> IF NormalizeSuccessful(body.successful).b THEN 1 ELSE 0,
     sentiment |-> body.sentiment.s,
     created_at |-> at]

\* (variant: no primary key)
NoPrimaryKey(id) == FALSE

\* id TEXT PRIMARY KEY: the insert fails when the id is taken
PrimaryKeyTaken(id) == \E c \in calls : c.id = id

\* (variant: INSERT OR REPLACE, a taken id has its row replaced)
CallsdataUpsert(body) ==
    /\ req' = Request("callsdata", NoQuery, body)
    /\ IF MissingField(body)
       THEN /\ res' = Response(400, "Missing required fields")
            /\ calls' = calls
       ELSE IF WrongType(body)
       THEN /\ res' = Response(400, "Invalid field types")
            /\ calls' = calls
       ELSE /\ res' = [Response(201, "") EXCEPT !.id = body.id.s]
            /\ calls' = {c \in calls : c.id # body.id.s} \cup {CallRow(body, now)}
    /\ UNCHANGED <<loads, now, tz, pc, d>>

Callsdata(body) ==
    /\ req' = Request("callsdata", NoQuery, body)
    /\ IF MissingField(body)
       THEN /\ res' = Response(400, "Missing required fields")
            /\ calls' = calls
       ELSE IF WrongType(body)
       THEN /\ res' = Response(400, "Invalid field types")
            /\ calls' = calls
       ELSE IF PrimaryKeyTaken(body.id.s)
       THEN /\ res' = Response(500, "Internal server error")
            /\ calls' = calls
       ELSE /\ res' = [Response(201, "") EXCEPT !.id = body.id.s]
            /\ calls' = calls \cup {CallRow(body, now)}
    /\ UNCHANGED <<loads, now, tz, pc, d>>

---------------------------------------------------------------------------
(* Clock and calendar                                                      *)

\* the last day of the model's clock
MaxDay == 7
\* the longest a request in flight is seen to take, in hours
MaxLatency == 1
\* the day on which the zone with daylight saving falls back
FallBackDay == 3

\* the instants the clock is read at: late evening and just past midnight, UTC
Instants == {24 * dd + h : dd \in 0..MaxDay, h \in {0, 23}}

\* the server's time zone (TZ of the process): UTC as in the Dockerfile, or a
\* zone with daylight saving, UTC-4 until 06:00 UTC of FallBackDay, UTC-5 after
Zones == {"UTC", "DST"}

FallBack == 24 * FallBackDay + 6

UTCOffset(zone, t) ==
    IF zone = "UTC" THEN 0 ELSE IF t < FallBack THEN -4 ELSE -5

\* the UTC instant of a local wall-clock time (the earlier one where two match)
LocalToUTC(zone, local) ==
    LET cand == {t \in {local - o : o \in {-5, -4, 0}} : t + UTCOffset(zone, t) = local}
    IN  CHOOSE t \in cand : \A u \in cand : t <= u

\* DATE(x) of SQLite and toISOString().split('T')[0]: the UTC calendar date
UTCDate(t) == t \div 24

\* const date = new Date(); date.setDate(date.getDate() - i);
\* date.toISOString().split('T')[0]
\* (setDate moves the local calendar day and keeps the local time of day)
DateStr(zone, t, i) ==
    LET local == t + UTCOffset(zone, t)
        moved == 24 * ((local \div 24) - i) + (local % 24)
    IN  UTCDate(LocalToUTC(zone, moved))

---------------------------------------------------------------------------
(* getDashboardData                                                        *)

RECURSIVE GCD(_, _)
GCD(a, b) == IF b = 0 THEN a ELSE GCD(b, a % b)

\* the quotient n / m (m > 0), not rounded
Quotient(n, m) ==
    LET g == GCD(IF n < 0 THEN -n ELSE n, m)
    IN  IF n = 0 THEN [num |-> 0, den |-> 1] ELSE [num |-> n \div g, den |-> m \div g]

Zero == Quotient(0, 1)

RECURSIVE SetSum(_, _)
SetSum(F(_), S) ==
    IF S = {} THEN 0
    ELSE LET x == CHOOSE y \in S : TRUE IN F(x) + SetSum(F, S \ {x})

Abs(x) == IF x < 0 THEN -x ELSE x

\* SELECT COUNT(*) as total, SUM(CASE WHEN successful = 1 THEN 1 ELSE 0 END) ...
StatsQuery(rows) ==
    [total |-> Cardinality(rows),
     successful_count |-> Cardinality({c \in rows : c.successful = 1})]

\* (variant: the percentage is cut to a whole number)
SuccessRateRounded(total, successful_count) ==
    IF total > 0 THEN Quotient((100 * successful_count) \div total, 1) ELSE Zero

\* totalCalls > 0 ? (successful_count / totalCalls) * 100 : 0
SuccessRate(total, successful_count) ==
    IF total > 0 THEN Quotient(100 * successful_count, total) ELSE Zero

\* SELECT sentiment, COUNT(*) as count FROM CALLS GROUP BY sentiment
SentimentQuery(rows) ==
    { [sentiment |-> s, count |-> Cardinality({c \in rows : c.sentiment = s})] :
        s \in {c.sentiment : c \in rows} }

\* the orders a query's rows may come back in
Orders(S) ==
    {f \in [1..Cardinality(S) -> S] : \A i, j \in 1..Cardinality(S) : f[i] = f[j] => i = j}

\* String.prototype.toLowerCase on the sentiments of the model
toLowerCase(s) ==
    CASE s = "Positive" -> "positive"
      [] s = "POSITIVE" -> "positive"
      [] s = "Negative" -> "negative"
      [] OTHER -> s

NoSentiment == [positive |-> 0, negative |-> 0, neutral |-> 0]

\* sentimentStats.forEach(stat => { ... })
RECURSIVE SentimentFold(_, _)
SentimentFold(stats, dist) ==
    IF stats = <<>> THEN dist
    ELSE LET stat == Head(stats)
             sentiment == toLowerCase(stat.sentiment)
         IN  SentimentFold(Tail(stats),
                 IF sentiment = "positive" THEN [dist EXCEPT !.positive = stat.count]
                 ELSE IF sentiment = "negative" THEN [dist EXCEPT !.negative = stat.count]
                 ELSE [dist EXCEPT !.neutral = stat.count])

Duration(c) == c.duration
OfferIterations(c) == c.offer_iterations
OfferDifference(c) == Abs(c.final_offer - c.final_counter_offer)

\* SELECT DATE(created_at) as date, AVG(duration), AVG(offer_iterations),
\*        AVG(ABS(final_offer - final_counter_offer)) FROM CALLS
\* WHERE DATE(created_at) >= DATE('now', '-7 days') GROUP BY DATE(created_at)
DailyQuery(rows, t) ==
    LET recent == {c \in rows : UTCDate(c.created_at) >= UTCDate(t) - 7}
        on(day) == {c \in recent : UTCDate(c.created_at) = day}
    IN  { [date |-> day,
           avgDuration |-> Quotient(SetSum(Duration, on(day)), Cardinality(on(day))),
           avgOfferIterations |->
               Quotient(SetSum(OfferIterations, on(day)), Cardinality(on(day))),
           avgOfferDifference |->
               Quotient(SetSum(OfferDifference, on(day)), Cardinality(on(day)))] :
          day \in {UTCDate(c.created_at) : c \in recent} }

\* one pass of the loop that fills in missing days: the entry pushed for i
FilledEntry(rows, zone, t, i) ==
    LET dateStr == DateStr(zone, t, i)
        existing == {r \in rows : r.date = dateStr}
    IN  IF existing = {}
        THEN [date |-> dateStr, avgDuration |-> Zero,
              avgOfferIterations |-> Zero, avgOfferDifference |-> Zero]
        ELSE CHOOSE r \in existing : TRUE

\* the handler's locals before it has run a query
NoDashboard ==
    [totalCalls |-> 0, successRate |-> Zero, sentimentDistribution |-> NoSentiment,
     dailyAverages |-> {}, filledDailyAverages |-> <<>>, i |-> 6]

DashboardStats ==
    /\ pc = "idle"
    /\ LET successStats == StatsQuery(calls)
       IN  d' = [NoDashboard EXCEPT
                   !.totalCalls = successStats.total,
                   !.successRate =
                       SuccessRate(successStats.total, successStats.successful_count)]
    /\ pc' = "sentiment"
    /\ req' = Request("dashboard", NoQuery, NoBody)
    /\ res' = Pending
    /\ UNCHANGED <<loads, calls, now, tz>>

DashboardSentiment ==
    /\ pc = "sentiment"
    /\ \E sentimentStats \in Orders(SentimentQuery(calls)) :
         d' = [d EXCEPT !.sentimentDistribution = SentimentFold(sentimentStats, NoSentiment)]
    /\ pc' = "daily"
    /\ UNCHANGED <<loads, calls, now, tz, req, res, key>>

\* (variant: the rows aggregated are moved out of CALLS)
DashboardDailyArchiving ==
    /\ pc = "daily"
    /\ d' = [d EXCEPT !.dailyAverages = DailyQuery(calls, now)]
    /\ pc' = "fill"
    /\ calls' = {c \in calls : UTCDate(c.created_at) < UTCDate(now) - 7}
    /\ UNCHANGED <<loads, now, tz, req, res, key>>

DashboardDaily ==
    /\ pc = "daily"
    /\ d' = [d EXCEPT !.dailyAverages = DailyQuery(calls, now)]
    /\ pc' = "fill"
    /\ UNCHANGED <<loads, calls, now, tz, req, res, key>>

\* for (let i = 6; i >= 0; i--) { ... }; the response is sent after the last pass
DashboardFill ==
    /\ pc = "fill"
    /\ d' = [d EXCEPT
               !.filledDailyAverages =
                   Append(@, FilledEntry(d.dailyAverages, tz, now, d.i)),
               !.i = @ - 1]
    /\ pc' = IF d.i = 0 THEN "done" ELSE "fill"
    /\ UNCHANGED <<loads, calls, now, tz, req, res, key>>

\* the handler has returned; its locals are gone
DashboardEnd ==
    /\ pc = "done"
    /\ pc' = "idle"
    /\ d' = NoDashboard
    /\ UNCHANGED <<loads, calls, now, tz, req, res, key>>

\* the first query is rejected by the database
DashboardStatsError ==
    /\ pc = "idle"
    /\ req' = Request("dashboard", NoQuery, NoBody)
    /\ res' = InternalError
    /\ UNCHANGED <<loads, calls, now, tz, pc, d>>

\* a later query is rejected by the database
DashboardError ==
    /\ pc \in {"sentiment", "daily"}
    /\ pc' = "idle"
    /\ d' = NoDashboard
    /\ res' = InternalError
    /\ UNCHANGED <<loads, calls, now, tz, req, key>>

---------------------------------------------------------------------------
(* The clock                                                               *)

\* time passes while a request is in flight
Tick ==
    /\ pc \notin {"idle", "done"}
    /\ \E t \in Instants : now < t /\ t <= now + MaxLatency /\ now' = t
    /\ UNCHANGED <<loads, calls, tz, pc, d, req, res, key>>

\* time passes between requests
Wait ==
    /\ pc = "idle"
    /\ \E t \in Instants : now < t /\ now' = t
    /\ UNCHANGED <<loads, calls, tz, pc, d, req, res, key>>

---------------------------------------------------------------------------
(* Requests of the model                                                   *)

\* ids of call records: the first NumIds of CallIdNames
NumIds == 3
\* ... and the first NumTimedIds of them where the clock runs
NumTimedIds == 2

CallIdNames == <<"call-1", "call-2", "call-3", "call-4", "call-5">>

CallIds(n) == {CallIdNames[k] : k \in 1..Min(n, Len(CallIdNames))}

Rates == {RateStep * k : k \in (-NegK..NegK) \cup (LowK..HighK)}

\* well-formed queries over the rates, and queries with parameters left out,
\* empty or not numeric
NegotiateQueries ==
    { [load_id |-> QNum(l), offered_rate |-> QNum(o), counter_offer |-> QNum(c)] :
        l \in 1..MaxLoadId, o \in Rates, c \in Rates }
    \cup
    { [load_id |-> l, offered_rate |-> o, counter_offer |-> c] :
        l \in {QAbsent, QEmpty, QText, QNum(1)},
        o \in {QAbsent, QEmpty, QText, QNum(3000)},
        c \in {QAbsent, QEmpty, QText, QNum(3800)} }

\* the numeric fields of a call: a short call settled far apart, a long one close
Profiles ==
    { [duration |-> 60, mc_number |-> 1001, final_offer |-> 3000,
       final_counter_offer |-> 3500, offer_iterations |-> 1],
      [duration |-> 90, mc_number |-> 1001, final_offer |-> 4100,
       final_counter_offer |-> 3800, offer_iterations |-> 4] }

Body(id, p, successful, sentiment) ==
    [id |-> Str(id), duration |-> Num(p.duration), mc_number |-> Num(p.mc_number),
     final_offer |-> Num(p.final_offer),
     final_counter_offer |-> Num(p.final_counter_offer),
     offer_iterations |-> Num(p.offer_iterations),
     successful |-> successful, sentiment |-> Str(sentiment)]

SuccessfulValues == {Bool(TRUE), Bool(FALSE), Str("Success"), Str("Failure"), Num(1)}

Sentiments == {"positive", "Positive", "negative", "angry", "calm"}

\* calls that differ in outcome or in sentiment
OutcomeBodies ==
    LET p == CHOOSE x \in Profiles : x.duration = 60
    IN  { Body(id, p, successful, "positive") :
            id \in CallIds(NumIds), successful \in SuccessfulValues }
        \cup
        { Body(id, p, Bool(TRUE), sentiment) :
            id \in CallIds(NumIds), sentiment \in Sentiments }

\* calls that differ in their numbers
TimedBodies ==
    { Body(id, p, Bool(TRUE), "positive") : id \in CallIds(NumTimedIds), p \in Profiles }

\* the ids of the calls where every route is open
NumApiIds == 2

\* the x-api-key header: the configured key, another, the empty string, none
HeaderKeys == {Str(API_KEY), Str("wrong"), Str(""), Undefined}

\* the query string after the path of a dashboard request: none or some
QueryStrings == {"", "?t=1"}

Filters ==
    { NoFilter,
      [origin |-> Str("Chicago"), destination |-> Undefined],
      [origin |-> Str("chicago"), destination |-> Undefined],
      [origin |-> Str(""), destination |-> Str("Atlanta")] }

\* queries for a load there is and one there is not, with parameters left out,
\* not numeric, blank or infinite
ApiQueries ==
    { [load_id |-> l, offered_rate |-> QNum(3000), counter_offer |-> QNum(3800)] :
        l \in {QNum(1), QNum(MaxLoadId), QAbsent, QText, QInfinity} }
    \cup
    { [load_id |-> QNum(2), offered_rate |-> o, counter_offer |-> QNum(3850)] :
        o \in {QEmpty, QText, QBlank, QInfinity, QMinusInfinity} }
    \cup
    { [load_id |-> QNum(3), offered_rate |-> QNum(2950), counter_offer |-> c] :
        c \in {QAbsent, QText, QBlank, QInfinity, QMinusInfinity} }

BodyFields ==
    {"id", "duration", "mc_number", "final_offer", "final_counter_offer",
     "offer_iterations", "successful", "sentiment"}

\* a value of another type than the field's
OfOtherType(field) ==
    IF field \in {"id", "sentiment"} THEN Num(7)
    ELSE IF field = "successful" THEN Null
    ELSE Str("60")

\* two different calls under each id
WellFormedBodies ==
    { Body(id, CHOOSE x \in Profiles : x.duration = 60, Bool(TRUE), "positive") :
        id \in CallIds(NumApiIds) }
    \cup
    { Body(id, CHOOSE x \in Profiles : x.duration = 90, Str("Failure"), "angry") :
        id \in CallIds(NumApiIds) }

\* a call with one field left out or of another type
MalformedBodies ==
    LET body == Body("call-1", CHOOSE x \in Profiles : x.duration = 60,
                     Bool(TRUE), "positive")
    IN  UNION { { [body EXCEPT ![field] = Undefined],
                  [body EXCEPT ![field] = OfOtherType(field)] } :
                field \in BodyFields }

ApiBodies == WellFormedBodies \cup MalformedBodies

---------------------------------------------------------------------------
(* Specifications                                                          *)

\* a fresh database after initializeDatabase, the server listening
Init ==
    /\ loads = SeedLoads
    /\ calls = {}
    /\ now = 23
    /\ tz \in Zones
    /\ pc = "idle"
    /\ d = NoDashboard
    /\ req = Request("none", NoQuery, NoBody)
    /\ res = Pending
    /\ key = Str(API_KEY)

InitUTC == Init /\ tz = "UTC"

\* ... and a negotiate request has arrived
InitNegotiate ==
    /\ loads = SeedLoads
    /\ calls = {}
    /\ now = 23
    /\ tz = "UTC"
    /\ pc = "idle"
    /\ d = NoDashboard
    /\ req \in {Request("negotiate", q, NoBody) : q \in NegotiateQueries}
    /\ res = Pending
    /\ key = Str(API_KEY)

\* the steps of a dashboard request after its first query
DashboardSteps ==
    \/ DashboardSentiment
    \/ DashboardDaily
    \/ DashboardFill
    \/ DashboardEnd

Dashboard ==
    \/ DashboardStats /\ UNCHANGED key
    \/ DashboardSteps

\* where the dashboard handler awaits a query, so that another request is served
AwaitPoints == {"idle", "sentiment", "daily"}

\* overlapping requests, the clock running; every request carries the API key
Next ==
    \/ \E body \in TimedBodies :
           pc \in AwaitPoints /\ Callsdata(body) /\ UNCHANGED key
    \/ Dashboard
    \/ Tick
    \/ Wait

Spec == Init /\ [][Next]_vars

\* requests served one after the other, the clock standing still
NextSerial ==
    \/ \E body \in OutcomeBodies : pc = "idle" /\ Callsdata(body) /\ UNCHANGED key
    \/ Dashboard

SpecSerial == InitUTC /\ [][NextSerial]_vars

\* negotiate requests alone
\* every route behind the API key middleware, one request at a time, with keys
\* of every kind and the database failing at times
NextApi ==
    \/ \E k \in HeaderKeys, filter \in Filters :
           /\ pc = "idle"
           /\ Route("/api/loads", "/loads", k, LoadsRequest(filter),
                    Loads(filter) \/ LoadsError(filter))
    \/ \E k \in HeaderKeys, q \in ApiQueries :
           /\ pc = "idle"
           /\ Route("/api/negotiate", "/negotiate", k,
                    Request("negotiate", q, NoBody),
                    Negotiate(q) \/ NegotiateError(q))
    \/ \E k \in HeaderKeys, body \in ApiBodies :
           /\ pc = "idle"
           /\ Route("/api/callsdata", "/callsdata", k,
                    Request("callsdata", NoQuery, body), Callsdata(body))
    \/ \E k \in HeaderKeys, qs \in QueryStrings :
           Route("/api/dashboard" \o qs, "/dashboard", k,
                 Request("dashboard", NoQuery, NoBody),
                 DashboardStats \/ DashboardStatsError)
    \/ DashboardSteps
    \/ DashboardError

SpecApi == InitUTC /\ [][NextApi]_vars

NextNegotiate ==
    req.op = "negotiate" /\ res = Pending /\ Negotiate(req.q) /\ UNCHANGED key

SpecNegotiate == InitNegotiate /\ [][NextNegotiate]_vars

---------------------------------------------------------------------------
(* Properties of GET /api/negotiate, under SpecNegotiate                   *)

\* the negotiate request just answered with a rate, and what it was about
Served == req.op = "negotiate" /\ res.status = 200
AskedLoad == CHOOSE l \in loads : l.load_id = req.q.load_id.n
Offered == req.q.offered_rate.n
Counter == req.q.counter_offer.n
Ceiling == AskedLoad.maximum_rate

\* the multiples of 100 nearest to a rate given doubled: both neighbours at a tie
Nearest100(p2) ==
    {m \in {100 * k : k \in ((p2 \div 200) - 1)..((p2 \div 200) + 1)} :
        Abs(2 * m - p2) <= 100}

\* twice the midpoint the claims name: of the offer and the ceiling when the
\* counter is out of range, of the offer and the counter otherwise
Midpoint2 == IF Counter > Ceiling THEN Offered + Ceiling ELSE Offered + Counter

\* over finite rates: a rate returned for a load whose maximum_rate exceeds the
\* offered rate is at most maximum_rate and at most counter_offer, whatever the
\* counter (C1 as a whole is taken up under SpecApi)
C1_RateWithinCeilingAndCounter ==
    (Served /\ Ceiling > Offered) =>
        (res.new_rate <= Ceiling /\ res.new_rate <= Counter)

\* the rounded rate lay above the counter and the counter was returned
C1_Witness ==
    /\ Served
    /\ Ceiling > Offered
    /\ \A m \in Nearest100(Midpoint2) : m > Counter
    /\ Counter < Ceiling
    /\ res.new_rate = Counter

\* C6 as claimed: the provisional rate is rounded to the nearest multiple of 100,
\* a tie going away from zero (3050 to 3100, -150 to -200), before the clamp.
C6_RoundsHalfAwayFromZero ==
    Served =>
        \E m \in Nearest100(Midpoint2) :
            /\ Abs(2 * m - Midpoint2) = 100 => Abs(2 * m) > Abs(Midpoint2)
            /\ res.new_rate = Min(Min(m, Ceiling), Counter)

\* C6 as amended: the provisional rate is rounded to the nearest multiple of 100,
\* a tie going up, toward positive infinity (3050 to 3100, -150 to -100).
C6_RoundsHalfUp ==
    Served =>
        \E m \in Nearest100(Midpoint2) :
            /\ Abs(2 * m - Midpoint2) = 100 => 2 * m > Midpoint2
            /\ res.new_rate = Min(Min(m, Ceiling), Counter)

\* C6 witness: a provisional rate of -150 was answered with -100
C6_Witness ==
    /\ Served
    /\ Midpoint2 = -300
    /\ Counter >= 0
    /\ res.new_rate = -100

\* C7: with the counter above the ceiling the rate is the midpoint of the offered
\* rate and the ceiling, rounded to a nearest multiple of 100 and then clamped;
\* offered 3000, ceiling 5000, counter 6000 gives 4000.
C7_SplitsToCeilingWhenCounterAbove ==
    (Served /\ Counter > Ceiling) =>
        /\ \E m \in Nearest100(Offered + Ceiling) :
               res.new_rate = Min(Min(m, Ceiling), Counter)
        /\ (Offered = 3000 /\ Ceiling = 5000 /\ Counter = 6000) => res.new_rate = 4000

\* C7 witness: the example of the claim
C7_Witness ==
    /\ Served
    /\ Offered = 3000 /\ Ceiling = 5000 /\ Counter = 6000
    /\ res.new_rate = 4000

\* C8: with the counter at or below the ceiling the rate is the midpoint of the
\* request's offered rate (not the load's loadboard_rate) and the counter, rounded
\* to a nearest multiple of 100 and then clamped; offered 3000, ceiling 5000,
\* counter 3800 gives 3400.
C8_SplitsToCounterWhenWithinCeiling ==
    (Served /\ Counter <= Ceiling) =>
        /\ \E m \in Nearest100(Offered + Counter) :
               res.new_rate = Min(Min(m, Ceiling), Counter)
        /\ (Offered = 3000 /\ Ceiling = 5000 /\ Counter = 3800) => res.new_rate = 3400

\* C8 witness: the example of the claim, on a load listed at another rate
C8_Witness ==
    /\ Served
    /\ Offered = 3000 /\ Ceiling = 5000 /\ Counter = 3800
    /\ AskedLoad.loadboard_rate # Offered
    /\ res.new_rate = 3400

---------------------------------------------------------------------------
(* Properties of POST /api/callsdata and of the dashboard's totals, under  *)
(* SpecSerial                                                              *)

\* the callsdata request just answered
Ingested == req.op = "callsdata" /\ res # Pending
\* a dashboard response is being sent: d holds its body
Responding == pc = "done"

StoredAs(id, successful) == \E c \in calls : c.id = id /\ c.successful = successful

\* C3 as claimed: "Success" is stored as successful; any other string for
\* `successful` is answered with a validation error.  (A request whose id is
\* taken fails on the primary key whatever its `successful`.)
C3_OtherStringsRejected ==
    (Ingested /\ req.body.successful.t = "string" /\ res.status # 500) =>
        IF req.body.successful.s = "Success"
        THEN res.status = 201 /\ StoredAs(req.body.id.s, 1)
        ELSE res.status = 400

\* C3 as amended: "Success" is stored as successful; any other string for
\* `successful` is normalized to false and the record is stored as unsuccessful.
C3_OtherStringsStoredAsFalse ==
    (Ingested /\ req.body.successful.t = "string" /\ res.status # 500) =>
        IF req.body.successful.s = "Success"
        THEN res.status = 201 /\ StoredAs(req.body.id.s, 1)
        ELSE res.status = 201 /\ StoredAs(req.body.id.s, 0)

\* C3 witness: a call sent with successful "Failure" was saved as unsuccessful
C3_Witness ==
    /\ Ingested
    /\ req.body.successful = Str("Failure")
    /\ res.status = 201
    /\ StoredAs(req.body.id.s, 0)

\* C2 as claimed: the sentiment counts of a dashboard response sum to totalCalls.
C2_SentimentCountsSumToTotal ==
    Responding =>
        d.sentimentDistribution.positive + d.sentimentDistribution.negative
            + d.sentimentDistribution.neutral = d.totalCalls

\* C9: totalCalls is the number of records and successRate is
\* successful / totalCalls * 100, not rounded; it is 0 with no records.
C9_TotalAndSuccessRate ==
    Responding =>
        LET successful == Cardinality({c \in calls : c.successful = 1})
        IN  /\ d.totalCalls = Cardinality(calls)
            /\ d.successRate.den > 0
            /\ d.successRate.num * d.totalCalls = 100 * successful * d.successRate.den
            /\ d.totalCalls = 0 => d.successRate.num = 0

\* C9 witness: three records, two of them successful, reported as 200/3 percent
C9_Witness ==
    /\ Responding
    /\ Cardinality(calls) = 3
    /\ Cardinality({c \in calls : c.successful = 1}) = 2
    /\ d.totalCalls = 3
    /\ d.successRate = [num |-> 200, den |-> 3]

---------------------------------------------------------------------------
(* Properties of the dashboard under overlapping requests and a running    *)
(* clock, under Spec                                                       *)

Today == UTCDate(now)

\* the snapshot d is the aggregation of the one set of records S
AggregatedFrom(S) ==
    /\ d.totalCalls = StatsQuery(S).total
    /\ d.successRate = SuccessRate(StatsQuery(S).total, StatsQuery(S).successful_count)
    /\ \E stats \in Orders(SentimentQuery(S)) :
           d.sentimentDistribution = SentimentFold(stats, NoSentiment)
    /\ \E t \in Instants : d.dailyAverages = DailyQuery(S, t)

\* C4 as claimed: a dashboard response is the aggregation of one state of the
\* call store (records are only ever added, so a state is a subset of calls).
C4_SnapshotFromOneStoreState ==
    Responding => \E S \in SUBSET calls : AggregatedFrom(S)

\* C5 as claimed: dailyAverages holds the 7 consecutive dates from today minus 6
\* days to today.
C5_SevenConsecutiveDatesEndingToday ==
    Responding =>
        /\ Len(d.filledDailyAverages) = 7
        /\ \A k \in 1..7 : d.filledDailyAverages[k].date = Today - 7 + k

\* the mean of F over the records S is the quotient q
IsMean(q, F(_), S) == q.den > 0 /\ q.num * Cardinality(S) = SetSum(F, S) * q.den

\* each entry carries the means over the records of its date, zeros with none
EntriesAreMeansOfTheirDate ==
    \A k \in 1..Len(d.filledDailyAverages) :
        LET e == d.filledDailyAverages[k]
            on == {c \in calls : UTCDate(c.created_at) = e.date}
        IN  IF on = {}
            THEN e.avgDuration = Zero /\ e.avgOfferIterations = Zero
                 /\ e.avgOfferDifference = Zero
            ELSE /\ IsMean(e.avgDuration, Duration, on)
                 /\ IsMean(e.avgOfferIterations, OfferIterations, on)
                 /\ IsMean(e.avgOfferDifference, OfferDifference, on)

\* no record older than today minus 6 days is under the date of an entry
OldRecordsInNoEntry ==
    \A c \in calls :
        UTCDate(c.created_at) < Today - 6 =>
            \A k \in 1..Len(d.filledDailyAverages) :
                d.filledDailyAverages[k].date # UTCDate(c.created_at)

\* C10 as claimed: each of the 7 entries carries the means of duration,
\* offer_iterations and abs(final_offer - final_counter_offer) over the records of
\* its date, zeros with none, and records older than today minus 6 days are in none.
C10_DailyMeansOverLastSevenDays ==
    Responding => (EntriesAreMeansOfTheirDate /\ OldRecordsInNoEntry)

\* the part of C10 that does not rest on which dates are listed
C10_EntriesAreMeans == Responding => EntriesAreMeansOfTheirDate

---------------------------------------------------------------------------
(* Properties of the sentiment distribution, under SpecSerial              *)

Category(sentiment) ==
    IF toLowerCase(sentiment) \in {"positive", "negative"}
    THEN toLowerCase(sentiment)
    ELSE "neutral"

Counted(category) == Cardinality({c \in calls : Category(c.sentiment) = category})

\* C11: in a dashboard response, positive is the number of stored records whose
\* sentiment is "positive" whatever its letter case, negative the number of
\* those whose sentiment is "negative" whatever its case, and neutral the
\* number of all the others.
C11_EveryRecordInOneCategory ==
    Responding =>
        /\ d.sentimentDistribution.positive = Counted("positive")
        /\ d.sentimentDistribution.negative = Counted("negative")
        /\ d.sentimentDistribution.neutral = Counted("neutral")

---------------------------------------------------------------------------
(* Properties of the routes behind the API key, under SpecApi              *)

\* the most recent request was let through by the middleware with the API key
Keyed(op) == req.op = op /\ key = Str(API_KEY)

LacksField(body) == \E field \in BodyFields : body[field].t = "undefined"

IllTyped(body) ==
    \/ \E field \in {"id", "sentiment"} : body[field].t # "string"
    \/ \E field \in {"duration", "mc_number", "final_offer", "final_counter_offer",
                     "offer_iterations"} : body[field].t # "number"
    \/ body.successful.t \notin {"boolean", "string"}

\* C12: a callsdata request with one of the eight fields missing, or of the
\* wrong type once `successful` is normalized, is answered with a validation
\* error, and the stored call records are what they were before it.
C12_MalformedCallRejectedBeforeWrite ==
    [][ (Keyed("callsdata")' /\ (LacksField(req'.body) \/ IllTyped(req'.body)))
            => (res'.status = 400 /\ calls' = calls) ]_vars

C12_Witness ==
    /\ Keyed("callsdata")
    /\ ~LacksField(req.body) /\ IllTyped(req.body)
    /\ res.status = 400
    /\ calls # {}

\* the parameter is one that Number() turns into a number other than NaN
Numeric(p) == p.k \in {"numeral", "blank", "Infinity", "-Infinity"}

Validated(q) == Numeric(q.load_id) /\ Numeric(q.offered_rate) /\ Numeric(q.counter_offer)

Resolves(p) ==
    \E l \in loads : p.k \in {"numeral", "blank"} /\ l.load_id = (IF p.k = "blank" THEN 0 ELSE p.n)

\* the lookup of the most recent request, a negotiate one, found no load
NoSuchLoad ==
    /\ Keyed("negotiate")
    /\ Validated(req.q)
    /\ ~Resolves(req.q.load_id)
    /\ res.status # 500

\* C13: a negotiate request whose load_id is the id of no stored load is
\* answered "Load not found" with status 404 and no new_rate, and neither the
\* loads nor the call records are changed by it.
C13_UnknownLoadNotFound ==
    [][ NoSuchLoad' =>
            /\ res' = Response(404, "Load not found")
            /\ loads' = loads
            /\ calls' = calls ]_vars

C13_Witness == NoSuchLoad /\ res.status = 404 /\ calls # {}

MissingOrNotNumeric(p) == p.k \in {"absent", "empty", "text"}

\* C14: a negotiate request in which load_id, offered_rate or counter_offer is
\* missing or not numeric is answered with a validation error, no load looked
\* up and no rate computed; a rate is only ever computed from three finite
\* numbers.
C14_RateOnlyFromFiniteNumbers ==
    Keyed("negotiate") =>
        /\ (\/ MissingOrNotNumeric(req.q.load_id)
            \/ MissingOrNotNumeric(req.q.offered_rate)
            \/ MissingOrNotNumeric(req.q.counter_offer))
               => (res.status = 400 /\ res.new_rate = 0 /\ res.nonfinite = "")
        /\ res.status = 200 =>
               /\ IsFiniteNumber(QueryNumber(req.q.load_id))
               /\ IsFiniteNumber(QueryNumber(req.q.offered_rate))
               /\ IsFiniteNumber(QueryNumber(req.q.counter_offer))

\* the part of C14 about missing and non-numeric parameters
C14_MissingOrNotNumericRejected ==
    (/\ Keyed("negotiate")
     /\ \/ MissingOrNotNumeric(req.q.load_id)
        \/ MissingOrNotNumeric(req.q.offered_rate)
        \/ MissingOrNotNumeric(req.q.counter_offer))
        => (res.status = 400 /\ res.new_rate = 0 /\ res.nonfinite = "")

\* C15: whatever request is served (loads, negotiate, callsdata, dashboard),
\* every stored call record is still stored afterwards with the field values
\* it was inserted with: none is updated, none is deleted, and the number of
\* records does not go down.
C15_StoredCallsAreKept ==
    [][ /\ \A c \in calls : c \in calls'
        /\ Cardinality(calls') >= Cardinality(calls) ]_vars

\* two records stored, and a later call under the id of one of them
C15_Witness ==
    /\ Cardinality(calls) >= 2
    /\ Keyed("callsdata")
    /\ \E c \in calls : c.id = req.body.id.s /\ c.sentiment # req.body.sentiment.s

\* C16: a well-formed call whose id is the id of a stored record is answered
\* with an error and not stored, the stored record and the others are what
\* they were; so no two stored records ever have the same id.
C16_TakenIdIsRefused ==
    [][ /\ (/\ Keyed("callsdata")'
            /\ ~LacksField(req'.body) /\ ~IllTyped(req'.body)
            /\ \E c \in calls : c.id = req'.body.id.s)
               => (res' = InternalError /\ calls' = calls)
        /\ \A c1, c2 \in calls' : c1.id = c2.id => c1 = c2 ]_vars

\* a call refused under the id of a stored record that differs from it
C16_Witness ==
    /\ Keyed("callsdata")
    /\ res = InternalError
    /\ \E c \in calls : c.id = req.body.id.s /\ c.duration # req.body.duration.n

\* C17: a dashboard request and a negotiate request write nothing: after every
\* step of one, whether it ends in a result, a validation error, "not found"
\* or a database error, the loads and the call records are what they were.
C17_DashboardAndNegotiateWriteNothing ==
    [][ req'.op \in {"dashboard", "negotiate"} =>
            (loads' = loads /\ calls' = calls) ]_vars

\* a dashboard response computed over stored records
C17_Witness == req.op = "dashboard" /\ pc = "done" /\ calls # {}

\* C18: a request to /api/loads, /api/negotiate or /api/callsdata whose
\* x-api-key header is absent or is not the API key is answered 401 and its
\* handler is not run: nothing is read into the response, nothing is written.
\* A request to /api/dashboard is not answered 401, whatever its key.
C18_KeyRequiredExceptDashboard ==
    [][ /\ (req'.op \in {"loads", "negotiate", "callsdata"} /\ key' # Str(API_KEY))
               => /\ res' = Response(401, "Unauthorized: Invalid or missing API key")
                  /\ UNCHANGED <<loads, calls, pc, d>>
        /\ req'.op = "dashboard" => res'.status # 401 ]_vars

\* a well-formed new call refused for its key
C18_Witness ==
    /\ req.op = "callsdata" /\ key = Str("wrong")
    /\ res.status = 401
    /\ ~LacksField(req.body) /\ ~IllTyped(req.body)
    /\ \A c \in calls : c.id # req.body.id.s

\* a dashboard served to a request without a key
C18_DashboardWithoutKey == req.op = "dashboard" /\ key = Undefined /\ pc = "done"

---------------------------------------------------------------------------
(* Properties of the rate over every number that passes validation, under  *)
(* SpecApi                                                                 *)

\* the numbers of the request just answered with a rate, and the rate
OfferedNumber == QueryNumber(req.q.offered_rate)
CounterNumber == QueryNumber(req.q.counter_offer)
CeilingNumber == Num(Ceiling)
RateNumber ==
    IF res.nonfinite = "" THEN Num(res.new_rate)
    ELSE IF res.nonfinite = "NaN" THEN NaN
    ELSE IF res.nonfinite = "Infinity" THEN Infinity
    ELSE MinusInfinity

\* a <= b and a < b on numbers: false of NaN
AtMost(a, b) ==
    /\ ~isNaN(a) /\ ~isNaN(b)
    /\ \/ a = MinusInfinity
       \/ b = Infinity
       \/ IsFiniteNumber(a) /\ IsFiniteNumber(b) /\ a.n <= b.n

Below(a, b) == AtMost(a, b) /\ a # b

\* C1, over every request that is answered with a rate: if the load's
\* maximum_rate is above the offered rate, the new_rate returned is a number
\* that is at most maximum_rate and at most counter_offer.
C1_RateOfAnyRequestWithinCeilingAndCounter ==
    (Keyed("negotiate") /\ Served /\ Below(OfferedNumber, CeilingNumber)) =>
        (AtMost(RateNumber, CeilingNumber) /\ AtMost(RateNumber, CounterNumber))

\* C19: the new_rate returned is a multiple of 100, or maximum_rate, or
\* counter_offer; and when the offered rate is at most the counter and at most
\* maximum_rate, it is within 50 of the midpoint that was rounded.
C19_RateOnTheGridAndNearTheMidpoint ==
    (Keyed("negotiate") /\ Served) =>
        /\ \/ IsFiniteNumber(RateNumber) /\ RateNumber.n % 100 = 0
           \/ RateNumber = CeilingNumber
           \/ RateNumber = CounterNumber /\ ~isNaN(RateNumber)
        /\ (AtMost(OfferedNumber, CounterNumber) /\ AtMost(OfferedNumber, CeilingNumber))
               => /\ IsFiniteNumber(OfferedNumber)
                  /\ IsFiniteNumber(RateNumber)
                  /\ LET target == IF AtMost(CounterNumber, CeilingNumber)
                                   THEN CounterNumber.n ELSE Ceiling
                     IN  Abs(2 * RateNumber.n - (OfferedNumber.n + target)) <= 100

=============================================================================
